---- MODULE Spec2Model ----
(***************************************************************************)
(* Process lifecycle of the server entry point (server.ts): bootstrap      *)
(* (connectDatabase, listener start), the shutdown triggers and the        *)
(* graceful shutdown orchestrator (gracefulShutdown, initiateShutdown).    *)
(*                                                                         *)
(* Execution model: Node's single-threaded event loop.  One action is one  *)
(* macrotask (an I/O callback, a timer callback, a signal, an immediate)   *)
(* together with the whole microtask chain (promise continuations) that it *)
(* releases, since no other macrotask can run in between.                  *)
(***************************************************************************)
EXTENDS Integers, Sequences, FiniteSets, TLC

VARIABLES
    isShuttingDown,    \* module flag isShuttingDown
    shutdownTimeout,   \* module variable shutdownTimeout: "undefined" or "handle"
    timer,             \* the deadline timer itself: "unset", "armed", "fired", "cleared"
    signal,            \* argument of the gracefulShutdown call that ran the sequence
    shutdownPc,        \* position of that call: "idle", "racing" (awaiting the race), "done"
    endedAt,           \* where that call ended: "none", "noClosers", "try", "catch"
    caught,            \* error caught at the catch clause of gracefulShutdown, or NoError
    shutdownPromises,  \* local shutdownPromises: sequence of closer promises
    closeCalls,        \* number of close calls issued per resource
    exitCalls,         \* arguments of the initiateShutdown calls, in order
    immediates,        \* pending setImmediate callbacks (their exitCode)
    exitLog,           \* exit codes logged by the setImmediate callbacks that ran
    ignored,           \* number of "Shutdown already in progress" log lines
    serverState,       \* listener: "undefined", "starting", "listening", "closing", "closed", "errored"
    readyState,        \* mongoose.connection.readyState, by the name of its ConnectionStates value
    mainPc,            \* position of main: "connecting", "backoff", "starting", "ready", "failed"
    retries,           \* loop variable of connectDatabase
    dbListeners,       \* dependency health listeners registered
    serverErrListener, \* listener runtime error handler registered
    startTimer,        \* startup deadline timer: "unset", "armed", "fired"
    triggers,          \* number of environment events delivered so far
    attempts,          \* number of mongoose.connect calls issued by connectDatabase
    inFlight,          \* number of mongoose.connect calls not yet settled
    delays,            \* backoff delays (ms) connectDatabase has waited for, in order
    lastError,         \* local lastError of connectDatabase, or NoError
    thrown,            \* what connectDatabase raised, or NoError
    failureShape,      \* shape of the failures so far: "none", one shape, or "mixed"
    heap,              \* the appError instances constructed so far; an instance is its index
    lastCall,          \* the last call of fromUnknown or globalErrorHandler: argument and result
    origin,            \* for each instance of heap, the code that constructed it
    sent,              \* what that last call logged and wrote to the response
    nodeEnv,           \* process.env.NODE_ENV
    success            \* the last call of sendSuccessResponse: parameters and outcome

lifecycleVars ==
        <<isShuttingDown, shutdownTimeout, timer, signal, shutdownPc, endedAt,
          caught, shutdownPromises, closeCalls, exitCalls, immediates, exitLog,
          ignored, serverState, readyState, mainPc, retries, dbListeners,
          serverErrListener, startTimer, triggers, attempts, inFlight,
          delays, lastError, thrown, failureShape>>

classifyVars == <<heap, lastCall, origin, sent, nodeEnv, success>>

vars == <<lifecycleVars, classifyVars>>

connVars == <<attempts, inFlight, delays, lastError, thrown, failureShape>>

mainVars == <<mainPc, retries, dbListeners, serverErrListener, startTimer,
              connVars>>

\* Bound on the number of environment events (signals, faults, dependency events).
MaxTriggers == 3

\* connectDatabase: const maxRetries = 5
maxRetries == 5

\* Messages a failing close can report.
ServerCloseMessages == {"server close error"}
DbCloseMessages == {"db close error"}

NoError == [kind |-> "none"]

----------------------------------------------------------------------------
(* gracefulShutdown, synchronous part *)

\* if (isShuttingDown) { log; return }
AlreadyShuttingDownOpen(flag) == FALSE
AlreadyShuttingDown(flag) == flag

\* if (server?.listening)
ServerListening(srv) == srv = "listening"

\* if (mongoose.connection.readyState !== ConnectionStates.disconnected)
DbOpen(rs) == rs # "disconnected"

\* The closer promises pushed, in push order: listener first, then dependency.
Closers(srv, rs) ==
    (IF ServerListening(srv)
       THEN <<[closer |-> "server", status |-> "pending", reason |-> <<>>]>>
       ELSE <<>>)
    \o
    (IF DbOpen(rs)
       THEN <<[closer |-> "db", status |-> "pending", reason |-> <<>>]>>
       ELSE <<>>)

\* if (shutdownTimeout) { clearTimeout(shutdownTimeout); ... }: the timer
\* after the statement, given the timer tm and the handle h before it.
\* Clearing a timer that has fired has no effect.
ClearTimeout(tm, h) == IF h = "handle" /\ tm = "armed" THEN "cleared" ELSE tm

\* initiateShutdown(exitCode): clear the deadline timer if the handle is set,
\* then defer the exit log by setImmediate.  tm, h: timer and handle on entry.
InitiateShutdown(exitCode, tm, h) ==
    /\ timer' = ClearTimeout(tm, h)
    /\ shutdownTimeout' = "undefined"
    /\ exitCalls' = Append(exitCalls, exitCode)
    /\ immediates' = Append(immediates, exitCode)

\* gracefulShutdown(sig) up to its first await or return.  srv, rs, tm:
\* listener state, dependency state and deadline timer state at the moment
\* of the call.
GracefulShutdown(sig, srv, rs, tm) ==
    IF AlreadyShuttingDown(isShuttingDown)
    THEN /\ ignored' = ignored + 1
         /\ serverState' = srv
         /\ readyState' = rs
         /\ timer' = tm
         /\ UNCHANGED <<isShuttingDown, shutdownTimeout, signal,
                        shutdownPc, endedAt, caught, shutdownPromises,
                        closeCalls, exitCalls, immediates>>
    ELSE /\ isShuttingDown' = TRUE
         /\ signal' = sig
         /\ timer' = "armed"
         /\ shutdownTimeout' = "handle"
         /\ shutdownPromises' = Closers(srv, rs)
         /\ serverState' = IF ServerListening(srv) THEN "closing" ELSE srv
         /\ readyState' = IF DbOpen(rs) THEN "disconnecting" ELSE rs
         /\ closeCalls' =
              [closeCalls EXCEPT
                 !.server = @ + (IF ServerListening(srv) THEN 1 ELSE 0),
                 !.db = @ + (IF DbOpen(rs) THEN 1 ELSE 0)]
         /\ IF Len(Closers(srv, rs)) = 0
            THEN /\ shutdownPc' = "done"
                 /\ endedAt' = "noClosers"
            ELSE /\ shutdownPc' = "racing"
                 /\ UNCHANGED endedAt
         /\ UNCHANGED <<caught, exitCalls, immediates, ignored>>

----------------------------------------------------------------------------
(* gracefulShutdown, the race and what follows it *)

\* Promise.allSettled(shutdownPromises) has resolved.
AllSettledFailFast(promises) ==
    \/ \A i \in 1..Len(promises) : promises[i].status # "pending"
    \/ \E i \in 1..Len(promises) : promises[i].status = "rejected"
AllSettled(promises) ==
    \A i \in 1..Len(promises) : promises[i].status # "pending"

\* results.filter(result => result.status === 'rejected')
IsSettledResult(r) == r.status # "pending"
IsRejected(r) == r.status = "rejected"
RejectedResults(results) == SelectSeq(results, IsRejected)

\* errors.map(e => e.message)
ErrorMessages(errors) == [i \in 1..Len(errors) |-> errors[i].reason]

\* if (errors.length > 0)
HasErrorsOffByOne(errors) == Len(errors) >= 0
HasErrors(errors) == Len(errors) > 0

\* new ShutdownError(`Shutdown completed with n error(s): m1, m2`, signal)
AggregateError(errors, sig) ==
    [kind |-> "aggregate", count |-> Len(errors),
     messages |-> ErrorMessages(errors), signal |-> sig]

\* new ShutdownError('Shutdown timeout exceeded', signal)
TimeoutError(sig) == [kind |-> "timeout", signal |-> sig]

\* The continuation of `await Promise.race([...])` once the closer promises
\* have become `promises`: nothing while allSettled is unresolved, else the
\* success path (clear timer, initiateShutdown(0)) or the catch clause
\* (log, clear timer, initiateShutdown(1)).
AfterSettle(promises) ==
    IF shutdownPc = "racing" /\ AllSettled(promises)
    THEN /\ shutdownPc' = "done"
         /\ IF HasErrors(RejectedResults(promises))
            THEN /\ caught' = AggregateError(RejectedResults(promises), signal)
                 /\ endedAt' = "catch"
                 /\ InitiateShutdown(1, ClearTimeout(timer, shutdownTimeout),
                                     "undefined")
            ELSE /\ caught' = caught
                 /\ endedAt' = "try"
                 /\ InitiateShutdown(0, ClearTimeout(timer, shutdownTimeout),
                                     "undefined")
    ELSE UNCHANGED <<shutdownPc, caught, endedAt, timer, shutdownTimeout,
                     exitCalls, immediates>>

\* Index of the pending promise of a closer, if any.
PendingIndex(c) ==
    {i \in 1..Len(shutdownPromises) :
        shutdownPromises[i].closer = c /\ shutdownPromises[i].status = "pending"}

\* server.close callback without error: resolve()
ServerCloseOk ==
    /\ \E i \in PendingIndex("server") :
         LET promises == [shutdownPromises EXCEPT ![i].status = "fulfilled"]
         IN /\ shutdownPromises' = promises
            /\ AfterSettle(promises)
    /\ serverState' = "closed"
    /\ UNCHANGED <<isShuttingDown, signal, closeCalls, exitLog, ignored,
                   readyState, triggers>>
    /\ UNCHANGED mainVars
    /\ UNCHANGED classifyVars

\* server.close callback with an error: reject(ShutdownError)
ServerCloseFails ==
    /\ \E i \in PendingIndex("server"), m \in ServerCloseMessages :
         LET promises ==
                 [shutdownPromises EXCEPT
                    ![i].status = "rejected",
                    ![i].reason = <<"HTTP server close failed: ", m>>]
         IN /\ shutdownPromises' = promises
            /\ AfterSettle(promises)
    /\ UNCHANGED <<isShuttingDown, signal, closeCalls, exitLog, ignored,
                   serverState, readyState, triggers>>
    /\ UNCHANGED mainVars
    /\ UNCHANGED classifyVars

\* mongoose.connection.close(false) resolves; the connection emits
\* 'disconnected', whose handler does nothing since isShuttingDown is set.
DbCloseOk ==
    /\ \E i \in PendingIndex("db") :
         LET promises == [shutdownPromises EXCEPT ![i].status = "fulfilled"]
         IN /\ shutdownPromises' = promises
            /\ AfterSettle(promises)
    /\ readyState' = "disconnected"
    /\ UNCHANGED <<isShuttingDown, signal, closeCalls, exitLog, ignored,
                   serverState, triggers>>
    /\ UNCHANGED mainVars
    /\ UNCHANGED classifyVars

\* mongoose.connection.close(false) rejects: .catch rethrows a ShutdownError
DbCloseFails ==
    /\ \E i \in PendingIndex("db"), m \in DbCloseMessages :
         LET promises ==
                 [shutdownPromises EXCEPT
                    ![i].status = "rejected",
                    ![i].reason = <<"Database close failed: ", m>>]
         IN /\ shutdownPromises' = promises
            /\ AfterSettle(promises)
    /\ UNCHANGED <<isShuttingDown, signal, closeCalls, exitLog, ignored,
                   serverState, readyState, triggers>>
    /\ UNCHANGED mainVars
    /\ UNCHANGED classifyVars

\* The deadline timer fires: reject(new ShutdownError('Shutdown timeout
\* exceeded')).  While the race is awaited the rejection wins it.
DeadlineWinsResolving ==
    /\ shutdownPc' = "done"
    /\ caught' = caught
    /\ endedAt' = "try"
    /\ InitiateShutdown(0, ClearTimeout("fired", shutdownTimeout), "undefined")
    /\ UNCHANGED <<isShuttingDown, signal, shutdownPromises, closeCalls,
                   ignored, serverState, readyState>>
DeadlineWinsIgnored ==
    /\ timer' = "fired"
    /\ UNCHANGED <<shutdownPc, caught, endedAt, shutdownTimeout, exitCalls,
                   immediates>>
    /\ UNCHANGED <<isShuttingDown, signal, shutdownPromises, closeCalls,
                   ignored, serverState, readyState>>
DeadlineWins ==
    /\ shutdownPc' = "done"
    /\ caught' = TimeoutError(signal)
    /\ endedAt' = "catch"
    /\ InitiateShutdown(1, ClearTimeout("fired", shutdownTimeout), "undefined")
    /\ UNCHANGED <<isShuttingDown, signal, shutdownPromises, closeCalls,
                   ignored, serverState, readyState>>

\* The deadline timer callback.  When gracefulShutdown has returned on the
\* no-closers path nothing awaits shutdownTimer: the rejection is unhandled
\* and process.on('unhandledRejection') calls gracefulShutdown again.
DeadlineFires ==
    /\ timer = "armed"
    /\ IF shutdownPc = "racing"
       THEN DeadlineWins
       ELSE GracefulShutdown("UNHANDLED_REJECTION", serverState, readyState,
                             "fired")
    /\ UNCHANGED <<exitLog, triggers>>
    /\ UNCHANGED mainVars
    /\ UNCHANGED classifyVars

\* The setImmediate callback of initiateShutdown: logs the exit code.
RunImmediate ==
    /\ immediates # <<>>
    /\ exitLog' = Append(exitLog, Head(immediates))
    /\ immediates' = Tail(immediates)
    /\ UNCHANGED <<isShuttingDown, shutdownTimeout, timer, signal, shutdownPc,
                   endedAt, caught, shutdownPromises, closeCalls, exitCalls,
                   ignored, serverState, readyState, triggers>>
    /\ UNCHANGED mainVars
    /\ UNCHANGED classifyVars

----------------------------------------------------------------------------
(* Shutdown triggers *)

\* process.on('SIGTERM' | 'SIGINT' | 'unhandledRejection' | 'uncaughtException')
ProcessSignals ==
    {"SIGTERM", "SIGINT", "UNHANDLED_REJECTION", "UNCAUGHT_EXCEPTION"}

ProcessEvent(sig) ==
    /\ triggers < MaxTriggers
    /\ triggers' = triggers + 1
    /\ GracefulShutdown(sig, serverState, readyState, timer)
    /\ UNCHANGED exitLog
    /\ UNCHANGED mainVars
    /\ UNCHANGED classifyVars

Sigterm == ProcessEvent("SIGTERM")
Sigint == ProcessEvent("SIGINT")
UnhandledRejection == ProcessEvent("UNHANDLED_REJECTION")
UncaughtException == ProcessEvent("UNCAUGHT_EXCEPTION")

\* A registered event handler of the form
\*   if (!isShuttingDown) { void gracefulShutdown(sig) }
\* run with the dependency in state rs.
GuardedHandlerInverted(sig, rs) ==
    IF isShuttingDown
    THEN GracefulShutdown(sig, serverState, rs, timer)
    ELSE /\ readyState' = rs
         /\ UNCHANGED <<isShuttingDown, shutdownTimeout, timer, signal,
                        shutdownPc, endedAt, caught, shutdownPromises,
                        closeCalls, exitCalls, immediates, ignored,
                        serverState>>
GuardedHandler(sig, rs) ==
    IF ~isShuttingDown
    THEN GracefulShutdown(sig, serverState, rs, timer)
    ELSE /\ readyState' = rs
         /\ UNCHANGED <<isShuttingDown, shutdownTimeout, timer, signal,
                        shutdownPc, endedAt, caught, shutdownPromises,
                        closeCalls, exitCalls, immediates, ignored,
                        serverState>>

\* mongoose.connection.on('disconnected'): the dependency drops an
\* established connection.
DbDisconnected ==
    /\ dbListeners
    /\ readyState = "connected"
    /\ triggers < MaxTriggers
    /\ triggers' = triggers + 1
    /\ GuardedHandler("UNEXPECTED_DISCONNECTION", "disconnected")
    /\ UNCHANGED exitLog
    /\ UNCHANGED mainVars
    /\ UNCHANGED classifyVars

\* mongoose.connection.on('error')
DbError ==
    /\ dbListeners
    /\ triggers < MaxTriggers
    /\ triggers' = triggers + 1
    /\ GuardedHandler("DATABASE_ERROR", readyState)
    /\ UNCHANGED exitLog
    /\ UNCHANGED mainVars
    /\ UNCHANGED classifyVars

\* server.on('error') registered after bootstrap
ServerError ==
    /\ serverErrListener
    /\ triggers < MaxTriggers
    /\ triggers' = triggers + 1
    /\ GuardedHandler("SERVER_ERROR", readyState)
    /\ UNCHANGED exitLog
    /\ UNCHANGED mainVars
    /\ UNCHANGED classifyVars

----------------------------------------------------------------------------
(* connectDatabase and classifyDatabaseError *)

\* Math.min(2000 * Math.pow(2, retries), 10000)
BaseDelay == 2000
MaxDelay == 10000

RECURSIVE Pow2(_)
Pow2(n) == IF n = 0 THEN 1 ELSE 2 * Pow2(n - 1)

Min(a, b) == IF a <= b THEN a ELSE b

BackoffDelayUncapped(r) == BaseDelay * Pow2(r)
BackoffDelay(r) == Min(BaseDelay * Pow2(r), MaxDelay)

\* Values mongoose.connect can reject with.  isError: instanceof Error;
\* isMongoose: instanceof mongoose.Error; code -1: the value has no code.
ErrorValue(mongooseError, name, code) ==
    [isError |-> TRUE, isMongoose |-> mongooseError, name |-> name,
     code |-> code, message |-> "raw message"]

RawFailures ==
    { ErrorValue(TRUE, "MongoServerSelectionError", -1),
      ErrorValue(TRUE, "MongoTimeoutError", -1),
      ErrorValue(TRUE, "MongoNetworkError", -1),
      ErrorValue(TRUE, "MongoServerError", 18),
      ErrorValue(TRUE, "MongoServerError", 11000),
      ErrorValue(TRUE, "MongooseError", -1),
      ErrorValue(FALSE, "MongoServerError", 18),
      ErrorValue(FALSE, "Error", -1),
      [isError |-> FALSE, isMongoose |-> FALSE, name |-> "absent",
       code |-> -1, message |-> "thrown string"] }

IsTimeout(error) ==
    /\ error.isMongoose
    /\ error.name \in {"MongoServerSelectionError", "MongoTimeoutError"}

IsNetwork(error) == error.isMongoose /\ error.name = "MongoNetworkError"

IsAuth(error) ==
    /\ error.isMongoose
    /\ error.name = "MongoServerError"
    /\ error.code = 18

\* classifyDatabaseError(error, retries).  The fields of the result are the
\* arguments handed to the error constructor (retries -1: none handed).  In the fallback the message
\* is error.message for an Error and String(error) otherwise; both are the
\* message field here.
classifyDatabaseError(error, r) ==
    IF IsTimeout(error)
    THEN [class |-> "DatabaseTimeoutError",
          message |-> <<"Database timeout after ", r + 1, " attempts: ",
                        error.message>>,
          code |-> "absent", retries |-> r]
    ELSE IF IsNetwork(error)
    THEN [class |-> "DatabaseConnectionError",
          message |-> <<"Network error connecting to database: ",
                        error.message>>,
          code |-> "DATABASE_NETWORK_ERROR", retries |-> r]
    ELSE IF IsAuth(error)
    THEN [class |-> "DatabaseAuthError",
          message |-> <<"Database authentication failed: ", error.message>>,
          code |-> "absent", retries |-> -1]
    ELSE [class |-> "DatabaseConnectionError",
          message |-> <<"Database connection failed: ", error.message>>,
          code |-> "DATABASE_CONNECTION_ERROR", retries |-> r]

\* The failure shapes: which branch of the classifier a value takes.
ShapeOf(error) ==
    IF IsTimeout(error) THEN "timeout"
    ELSE IF IsNetwork(error) THEN "network"
    ELSE IF IsAuth(error) THEN "auth"
    ELSE IF error.isError THEN "generic"
    ELSE "nonError"

MergeShape(prev, shape) ==
    IF prev = "none" \/ prev = shape THEN shape ELSE "mixed"

\* lastError = classifyDatabaseError(error, retries)
KeepFirstError(prev, new) == IF prev = NoError THEN new ELSE prev
NextLastError(prev, new) == new

\* if (retries < maxRetries - 1) { await delay }
WaitsAfterEveryFailure(r) == TRUE
WaitsBeforeRetry(r) == r < maxRetries - 1

\* for (...; retries < maxRetries; retries++): there is another iteration
\* after the one with index r, whatever error it classified.
LoopContinuesUnlessAuth(r, err) ==
    r + 1 < maxRetries /\ err.class # "DatabaseAuthError"
LoopContinues(r, err) == r + 1 < maxRetries

\* throw lastError ?? new DatabaseConnectionError('Unknown error ...')
UnknownConnectionError ==
    [class |-> "DatabaseConnectionError",
     message |-> <<"Unknown error during database connection attempts">>,
     code |-> "absent", retries |-> -1]

ThrownAfterLoop(last) == IF last # NoError THEN last ELSE UnknownConnectionError

----------------------------------------------------------------------------
(* main *)

\* catch clause of main: await gracefulShutdown('STARTUP_FAILURE')
BootstrapFailureEscapes(srv, rs) ==
    /\ mainPc' = "rejected"
    /\ GracefulShutdown("UNHANDLED_REJECTION", srv, rs, timer)
BootstrapFailure(srv, rs) ==
    /\ mainPc' = "failed"
    /\ GracefulShutdown("STARTUP_FAILURE", srv, rs, timer)

\* mongoose.connect resolves: connectDatabase returns; main registers the
\* dependency listeners, calls app.listen and arms the startup deadline.
ConnectOkNoReturn ==
    /\ mainPc = "connecting"
    /\ retries < maxRetries - 1
    /\ readyState' = IF readyState = "connecting" THEN "connected" ELSE readyState
    /\ retries' = retries + 1
    /\ attempts' = attempts + 1
    /\ UNCHANGED <<isShuttingDown, shutdownTimeout, timer, signal, shutdownPc,
                   endedAt, caught, shutdownPromises, closeCalls, exitCalls,
                   immediates, exitLog, ignored, serverState, mainPc,
                   dbListeners, serverErrListener, startTimer, triggers,
                   inFlight, delays, lastError, thrown, failureShape>>
    /\ UNCHANGED classifyVars
ConnectOk ==
    /\ mainPc = "connecting"
    /\ readyState' = IF readyState = "connecting" THEN "connected" ELSE readyState
    /\ inFlight' = inFlight - 1
    /\ dbListeners' = TRUE
    /\ serverState' = "starting"
    /\ startTimer' = "armed"
    /\ mainPc' = "starting"
    /\ UNCHANGED <<isShuttingDown, shutdownTimeout, timer, signal, shutdownPc,
                   endedAt, caught, shutdownPromises, closeCalls, exitCalls,
                   immediates, exitLog, ignored, retries, serverErrListener,
                   triggers, attempts, delays, lastError, thrown, failureShape>>
    /\ UNCHANGED classifyVars

\* The catch clause of the loop body for a failure `raw`: classify, compute
\* the delay, wait unless this was the final attempt.
FailureBookkeeping(raw) ==
    /\ inFlight' = inFlight - 1
    /\ lastError' = NextLastError(lastError, classifyDatabaseError(raw, retries))
    /\ delays' = IF WaitsBeforeRetry(retries)
                 THEN Append(delays, BackoffDelay(retries))
                 ELSE delays
    /\ failureShape' = MergeShape(failureShape, ShapeOf(raw))

\* mongoose.connect rejects and the loop goes on: wait for the backoff.
ConnectFailsRetry ==
    /\ mainPc = "connecting"
    /\ \E raw \in RawFailures :
         /\ LoopContinues(retries, classifyDatabaseError(raw, retries))
         /\ FailureBookkeeping(raw)
    /\ readyState' = IF readyState = "connecting" THEN "disconnected" ELSE readyState
    /\ mainPc' = "backoff"
    /\ UNCHANGED <<isShuttingDown, shutdownTimeout, timer, signal, shutdownPc,
                   endedAt, caught, shutdownPromises, closeCalls, exitCalls,
                   immediates, exitLog, ignored, serverState, retries,
                   dbListeners, serverErrListener, startTimer, triggers,
                   attempts, thrown>>
    /\ UNCHANGED classifyVars

\* The backoff delay has elapsed: next iteration of the loop, which calls
\* mongoose.connect again.
BackoffElapsed ==
    /\ mainPc = "backoff"
    /\ retries' = retries + 1
    /\ attempts' = attempts + 1
    /\ inFlight' = inFlight + 1
    /\ mainPc' = "connecting"
    /\ readyState' = IF readyState = "disconnected" THEN "connecting" ELSE readyState
    /\ UNCHANGED <<isShuttingDown, shutdownTimeout, timer, signal, shutdownPc,
                   endedAt, caught, shutdownPromises, closeCalls, exitCalls,
                   immediates, exitLog, ignored, serverState, dbListeners,
                   serverErrListener, startTimer, triggers, delays, lastError,
                   thrown, failureShape>>
    /\ UNCHANGED classifyVars

\* mongoose.connect rejects on the final attempt: the loop ends,
\* connectDatabase throws and main's catch clause triggers the shutdown.
ConnectFailsFinalSwallowed ==
    /\ mainPc = "connecting"
    /\ \E raw \in RawFailures :
         /\ ~LoopContinues(retries, classifyDatabaseError(raw, retries))
         /\ FailureBookkeeping(raw)
    /\ thrown' = ThrownAfterLoop(lastError')
    /\ readyState' = IF readyState = "connecting" THEN "disconnected" ELSE readyState
    /\ dbListeners' = TRUE
    /\ serverState' = "starting"
    /\ startTimer' = "armed"
    /\ mainPc' = "starting"
    /\ UNCHANGED <<isShuttingDown, shutdownTimeout, timer, signal, shutdownPc,
                   endedAt, caught, shutdownPromises, closeCalls, exitCalls,
                   immediates, exitLog, ignored, retries, serverErrListener,
                   triggers, attempts>>
    /\ UNCHANGED classifyVars
ConnectFailsFinal ==
    /\ mainPc = "connecting"
    /\ \E raw \in RawFailures :
         /\ ~LoopContinues(retries, classifyDatabaseError(raw, retries))
         /\ FailureBookkeeping(raw)
    /\ thrown' = ThrownAfterLoop(lastError')
    /\ BootstrapFailure(serverState,
                        IF readyState = "connecting" THEN "disconnected"
                                                   ELSE readyState)
    /\ UNCHANGED <<exitLog, retries, dbListeners, serverErrListener,
                   startTimer, triggers, attempts>>
    /\ UNCHANGED classifyVars

\* The listen callback: the listener is ready.  If main still awaits the
\* startup race it registers the runtime error handler and completes.
ListenReady ==
    /\ serverState = "starting"
    /\ serverState' = "listening"
    /\ IF mainPc = "starting"
       THEN mainPc' = "ready" /\ serverErrListener' = TRUE
       ELSE UNCHANGED <<mainPc, serverErrListener>>
    /\ UNCHANGED <<isShuttingDown, shutdownTimeout, timer, signal, shutdownPc,
                   endedAt, caught, shutdownPromises, closeCalls, exitCalls,
                   immediates, exitLog, ignored, readyState, retries,
                   dbListeners, startTimer, triggers>>
    /\ UNCHANGED connVars
    /\ UNCHANGED classifyVars

\* server.on('error', reject) before the listener is ready
ListenError ==
    /\ serverState = "starting"
    /\ IF mainPc = "starting"
       THEN BootstrapFailure("errored", readyState)
       ELSE /\ serverState' = "errored"
            /\ UNCHANGED <<isShuttingDown, shutdownTimeout, timer, signal,
                           shutdownPc, endedAt, caught, shutdownPromises,
                           closeCalls, exitCalls, immediates, ignored,
                           readyState, mainPc>>
    /\ UNCHANGED <<exitLog, retries, dbListeners, serverErrListener,
                   startTimer, triggers>>
    /\ UNCHANGED connVars
    /\ UNCHANGED classifyVars

\* The startup deadline timer fires: rejects the startup race if it is
\* still awaited, has no effect otherwise.
StartTimeoutFiresUnguarded ==
    /\ startTimer = "armed"
    /\ startTimer' = "fired"
    /\ BootstrapFailure(serverState, readyState)
    /\ UNCHANGED <<exitLog, retries, dbListeners, serverErrListener, triggers>>
    /\ UNCHANGED connVars
    /\ UNCHANGED classifyVars
StartTimeoutFiresUnhandled ==
    /\ startTimer = "armed"
    /\ startTimer' = "fired"
    /\ IF mainPc = "starting"
       THEN BootstrapFailure(serverState, readyState)
       ELSE /\ GracefulShutdown("UNHANDLED_REJECTION", serverState,
                                readyState, timer)
            /\ UNCHANGED mainPc
    /\ UNCHANGED <<exitLog, retries, dbListeners, serverErrListener, triggers>>
    /\ UNCHANGED connVars
    /\ UNCHANGED classifyVars
StartTimeoutFires ==
    /\ startTimer = "armed"
    /\ startTimer' = "fired"
    /\ IF mainPc = "starting"
       THEN BootstrapFailure(serverState, readyState)
       ELSE UNCHANGED <<isShuttingDown, shutdownTimeout, timer, signal,
                        shutdownPc, endedAt, caught, shutdownPromises,
                        closeCalls, exitCalls, immediates, ignored,
                        serverState, readyState, mainPc>>
    /\ UNCHANGED <<exitLog, retries, dbListeners, serverErrListener, triggers>>
    /\ UNCHANGED connVars
    /\ UNCHANGED classifyVars

----------------------------------------------------------------------------
(* appError, its factories, fromUnknown and globalErrorHandler *)

\* Bound on the number of appError instances constructed.
MaxInstances == 2

\* The property `code` of a value: its JavaScript type and its value, printed.
Code(t, v) == [type |-> t, value |-> v]
NoCode == Code("undefined", "")

\* A JavaScript value as the error-handling code can observe it.  id > 0
\* is the identity of an appError instance (its index in heap); id = 0 is
\* any other value.
Value(t, isErr, isSyntax, body, nm, cd, msg, kv, pth, val, errs) ==
    [id |-> 0, type |-> t, isError |-> isErr, isSyntaxError |-> isSyntax,
     hasBody |-> body, hasName |-> nm # "undefined", name |-> nm,
     hasCode |-> cd # NoCode, code |-> cd, message |-> msg,
     keyValue |-> kv, path |-> pth, value |-> val, errors |-> errs]

Undefined ==
    Value("undefined", FALSE, FALSE, FALSE, "undefined", NoCode, <<>>, <<>>,
          "undefined", "undefined", <<>>)

\* new Error(message) with the given name
ErrorObject(nm, msg) ==
    Value("object", TRUE, FALSE, FALSE, nm, NoCode, msg, <<>>, "undefined",
          "undefined", <<>>)

\* Values handed to next(error) or thrown in a request handler.
RawValues ==
    { \* MongoServerError E11000 with keyValue { email: 'a@b.c' }
      Value("object", TRUE, FALSE, FALSE, "MongoServerError",
            Code("number", "11000"), <<"E11000 duplicate key error">>,
            <<[field |-> "email", value |-> "a@b.c"]>>, "undefined",
            "undefined", <<>>),
      \* legacy driver: name MongoError, code 11000, keyValue { field: 'x' }
      Value("object", TRUE, FALSE, FALSE, "MongoError",
            Code("number", "11000"), <<"E11000 duplicate key error">>,
            <<[field |-> "field", value |-> "x"]>>, "undefined",
            "undefined", <<>>),
      \* mongoose CastError
      Value("object", TRUE, FALSE, FALSE, "CastError", NoCode,
            <<"Cast to ObjectId failed">>, <<>>, "_id", "abc", <<>>),
      \* mongoose ValidationError with one sub-error
      Value("object", TRUE, FALSE, FALSE, "ValidationError", NoCode,
            <<"User validation failed">>, <<>>, "undefined", "undefined",
            <<[isNull |-> FALSE, path |-> "email", message |-> "required",
               value |-> "undefined"]>>),
      \* jsonwebtoken errors
      ErrorObject("JsonWebTokenError", <<"jwt malformed">>),
      ErrorObject("TokenExpiredError", <<"jwt expired">>),
      \* body-parser SyntaxError (carries the property body)
      Value("object", TRUE, TRUE, TRUE, "SyntaxError", NoCode,
            <<"Unexpected token">>, <<>>, "undefined", "undefined", <<>>),
      \* a SyntaxError thrown by application code
      Value("object", TRUE, TRUE, FALSE, "SyntaxError", NoCode,
            <<"Unexpected token">>, <<>>, "undefined", "undefined", <<>>),
      \* a plain Error
      ErrorObject("Error", <<"boom">>),
      \* malformed store failures: no keyValue, no path and value, no
      \* errors, a sub-error that is null
      Value("object", TRUE, FALSE, FALSE, "MongoServerError",
            Code("number", "11000"), <<"E11000 duplicate key error">>,
            <<>>, "undefined", "undefined", <<>>),
      Value("object", FALSE, FALSE, FALSE, "CastError", NoCode, <<>>, <<>>,
            "undefined", "undefined", <<>>),
      Value("object", FALSE, FALSE, FALSE, "ValidationError", NoCode, <<>>,
            <<>>, "undefined", "undefined", <<>>),
      Value("object", FALSE, FALSE, FALSE, "ValidationError", NoCode, <<>>,
            <<>>, "undefined", "undefined",
            <<[isNull |-> TRUE, path |-> "undefined", message |-> "undefined",
               value |-> "undefined"]>>),
      \* null
      Value("null", FALSE, FALSE, FALSE, "undefined", NoCode, <<>>, <<>>,
            "undefined", "undefined", <<>>),
      \* a thrown string, a thrown plain object, undefined
      Value("string", FALSE, FALSE, FALSE, "undefined", NoCode, <<>>, <<>>,
            "undefined", "undefined", <<>>),
      Value("object", FALSE, FALSE, FALSE, "undefined", NoCode, <<>>, <<>>,
            "undefined", "undefined", <<>>),
      Undefined }

\* Destructuring default of the appError constructor: `field = d`
Param(params, field, d) ==
    IF field \in DOMAIN params THEN params[field] ELSE d

\* new appError(params)
NewAppErrorLowByDefault(params) ==
    [name |-> "AppError",
     message |-> params.message,
     category |-> params.category,
     severity |-> Param(params, "severity", "LOW"),
     statusCode |-> Param(params, "statusCode", 500),
     context |-> IF params.context = "undefined" THEN "{}" ELSE params.context,
     originalError |-> params.originalError,
     isOperational |-> Param(params, "isOperational", TRUE),
     code |-> params.code]
NewAppError(params) ==
    [name |-> "AppError",
     message |-> params.message,
     category |-> params.category,
     severity |-> Param(params, "severity", "MEDIUM"),
     statusCode |-> Param(params, "statusCode", 500),
     context |-> IF params.context = "undefined" THEN "{}" ELSE params.context,
     originalError |-> params.originalError,
     isOperational |-> Param(params, "isOperational", TRUE),
     code |-> params.code]

\* The static factory methods; message "undefined" selects the default
\* value of the parameter where the factory has one.
Factories ==
    {"validation", "authentication", "authorization", "notFound", "database",
     "conflict", "rateLimit", "internal"}

DefaultMessage(message, d) == IF message = <<"undefined">> THEN d ELSE message

Factory(f, message, context, originalError) ==
    CASE f = "validation" ->
           NewAppError([message |-> message, category |-> "VALIDATION",
                        statusCode |-> 400, context |-> context,
                        originalError |-> originalError,
                        code |-> "VALIDATION_ERROR"])
      [] f = "authentication" ->
           NewAppError([message |-> DefaultMessage(message, <<"Authentication required">>),
                        category |-> "AUTHENTICATION",
                        statusCode |-> 401, context |-> context,
                        originalError |-> originalError,
                        code |-> "AUTHENTICATION_ERROR"])
      [] f = "authorization" ->
           NewAppError([message |-> DefaultMessage(message, <<"Insufficient permissions">>),
                        category |-> "AUTHORIZATION",
                        statusCode |-> 403, context |-> context,
                        originalError |-> originalError,
                        code |-> "AUTHORIZATION_ERROR"])
      [] f = "notFound" ->
           NewAppError([message |-> message \o <<" not found">>,
                        category |-> "NOT_FOUND",
                        statusCode |-> 404, context |-> context,
                        originalError |-> originalError,
                        code |-> "RESOURCE_NOT_FOUND"])
      [] f = "database" ->
           NewAppError([message |-> message, category |-> "DATABASE",
                        severity |-> "HIGH",
                        statusCode |-> 500, context |-> context,
                        originalError |-> originalError,
                        code |-> "DATABASE_ERROR"])
      [] f = "conflict" ->
           NewAppError([message |-> message, category |-> "BUSINESS_LOGIC",
                        statusCode |-> 409, context |-> context,
                        originalError |-> originalError,
                        code |-> "CONFLICT_ERROR"])
      [] f = "rateLimit" ->
           NewAppError([message |-> DefaultMessage(message, <<"Too many requests">>),
                        category |-> "RATE_LIMITING",
                        statusCode |-> 429, context |-> context,
                        originalError |-> originalError,
                        code |-> "RATE_LIMIT_EXCEEDED"])
      [] f = "internal" ->
           NewAppError([message |-> DefaultMessage(message, <<"Internal server error">>),
                        category |-> "INTERNAL_SERVER",
                        severity |-> "HIGH",
                        statusCode |-> 500, context |-> context,
                        originalError |-> originalError,
                        code |-> "INTERNAL_SERVER_ERROR"])

\* The appError instance i of heap h, seen as a value.
InstanceValue(h, i) ==
    [id |-> i, type |-> "object", isError |-> TRUE, isSyntaxError |-> FALSE,
     hasBody |-> FALSE, hasName |-> TRUE, name |-> h[i].name,
     hasCode |-> TRUE,
     code |-> IF h[i].code = "undefined" THEN NoCode
              ELSE Code("string", h[i].code),
     message |-> h[i].message, keyValue |-> <<>>, path |-> "undefined",
     value |-> "undefined", errors |-> <<>>]

\* Result of an expression that may construct an instance: the heap after
\* it and the instance it evaluates to.
Construct(h, instance) ==
    [heap |-> Append(h, instance), result |-> Len(h) + 1]

\* appError.isAppError: error instanceof appError
IsAppError(error) == error.id > 0

\* appError.fromUnknown(error, context)
FromUnknownAlwaysWraps(h, error, context) ==
    IF error.isError
    THEN Construct(h, NewAppError(
             [message |-> error.message, category |-> "UNKNOWN",
              severity |-> "MEDIUM", statusCode |-> 500,
              context |-> context, originalError |-> error,
              isOperational |-> FALSE, code |-> "UNKNOWN_ERROR"]))
    ELSE Construct(h, NewAppError(
             [message |-> <<"An unknown error occurred">>,
              category |-> "UNKNOWN", severity |-> "MEDIUM",
              statusCode |-> 500, context |-> context,
              originalError |-> Undefined,
              isOperational |-> FALSE, code |-> "UNKNOWN_ERROR"]))
FromUnknownDropsCause(h, error, context) ==
    IF IsAppError(error)
    THEN [heap |-> h, result |-> error.id]
    ELSE Construct(h, NewAppError(
             [message |-> IF error.isError THEN error.message
                          ELSE <<"An unknown error occurred">>,
              category |-> "UNKNOWN", severity |-> "MEDIUM",
              statusCode |-> 500, context |-> context,
              originalError |-> Undefined,
              isOperational |-> FALSE, code |-> "UNKNOWN_ERROR"]))
FromUnknown(h, error, context) ==
    IF IsAppError(error)
    THEN [heap |-> h, result |-> error.id]
    ELSE IF error.isError
    THEN Construct(h, NewAppError(
             [message |-> error.message, category |-> "UNKNOWN",
              severity |-> "MEDIUM", statusCode |-> 500,
              context |-> context, originalError |-> error,
              isOperational |-> FALSE, code |-> "UNKNOWN_ERROR"]))
    ELSE Construct(h, NewAppError(
             [message |-> <<"An unknown error occurred">>,
              category |-> "UNKNOWN", severity |-> "MEDIUM",
              statusCode |-> 500, context |-> context,
              originalError |-> Undefined,
              isOperational |-> FALSE, code |-> "UNKNOWN_ERROR"]))

\* utils/errors: isMongoError, isJWTError
IsMongoError(error) ==
    error.type = "object" /\ (error.hasCode \/ error.hasName)

IsJWTErrorNever(error) == FALSE
IsJWTError(error) == error.type = "object" /\ error.hasName

\* error.code === 11000
CodeIs11000(error) == error.code = Code("number", "11000")

\* utils/errors: formatMongoDuplicateKeyError.  field is the first key of
\* keyValue, value is keyValue['field'].
KeyValueAt(kv, key) ==
    IF \E i \in 1..Len(kv) : kv[i].field = key
    THEN kv[CHOOSE i \in 1..Len(kv) : kv[i].field = key].value
    ELSE "undefined"

FormatMongoDuplicateKeyError(error) ==
    LET field == IF Len(error.keyValue) > 0 THEN error.keyValue[1].field
                 ELSE "undefined"
        value == KeyValueAt(error.keyValue, "field")
    IN ErrorObject("DuplicateKeyError",
           <<"Duplicate value '", value, "' for field '", field,
             "'. This value already exists.">>)

\* utils/errors: formatMongoCastError
FormatMongoCastError(error) ==
    ErrorObject("CastError",
        <<"Invalid ", error.path, ": ", error.value,
          ". Please provide a valid value.">>)

\* formatMongoValidationError reads err.path of every value of
\* error.errors: a TypeError when one of them is null.
FormatMongoValidationErrorThrows(error) ==
    \E i \in 1..Len(error.errors) : error.errors[i].isNull

\* A call that throws: nothing is constructed.
Thrown(h) == [heap |-> h, result |-> 0]

\* utils/errors: formatMongoValidationError; the details array is a
\* property of the Error it returns, carried here in errors.
FormatMongoValidationError(error) ==
    [ErrorObject("ValidationError", <<"Validation failed">>)
       EXCEPT !.errors = error.errors]

\* globalErrorHandler(error, req, res, next): the instance it hands to
\* sendErrorResponse, or no instance (result 0) when it throws.
GlobalErrorHandler(h, error) ==
    IF IsMongoError(error)
         /\ (CodeIs11000(error)
               \/ (error.name = "MongoError" /\ CodeIs11000(error)))
    THEN FromUnknown(h, FormatMongoDuplicateKeyError(error), "requestMeta")
    ELSE IF IsMongoError(error) /\ error.name = "CastError"
    THEN FromUnknown(h, FormatMongoCastError(error), "requestMetaResource")
    ELSE IF IsMongoError(error) /\ error.name = "ValidationError"
    THEN IF FormatMongoValidationErrorThrows(error)
         THEN Thrown(h)
         ELSE FromUnknown(h, FormatMongoValidationError(error), "requestMeta")
    ELSE IF IsJWTError(error) /\ error.name = "JsonWebTokenError"
    THEN Construct(h, Factory("authentication", <<"Invalid token">>,
                              "requestMeta", error))
    ELSE IF IsJWTError(error) /\ error.name = "TokenExpiredError"
    THEN Construct(h, Factory("authentication", <<"Token expired">>,
                              "requestMeta", error))
    ELSE IF error.isSyntaxError /\ error.hasBody
    THEN Construct(h, Factory("validation",
                              <<"Invalid JSON in request body">>,
                              "requestMeta", error))
    ELSE IF IsAppError(error)
    THEN [heap |-> h, result |-> error.id]
    ELSE FromUnknown(h, error, "requestMetaClient")

\* The keys of the context objects: the ones globalErrorHandler builds
\* from the request, the constructor's default {}, and a caller's.
ContextKeys(context) ==
    CASE context = "requestMeta" -> {"path", "method", "timestamp"}
      [] context = "requestMetaResource" ->
           {"path", "method", "resource", "timestamp"}
      [] context = "requestMetaClient" ->
           {"path", "method", "timestamp", "ip", "userAgent"}
      [] context = "callerContext" -> {"userId"}
      [] context = "notFoundMeta" ->
           {"path", "method", "originalUrl", "userAgent"}
      [] OTHER -> {}

\* appError.toResponse(): the outward body.  The timestamp is left out
\* (the model has no clock); a field the body does not have is "absent".
NodeEnvs == {"development", "production"}

ToResponseAlwaysContext(instance, env) ==
    [name |-> instance.name,
     message |-> instance.message,
     category |-> instance.category,
     code |-> instance.code,
     context |-> instance.context,
     requestId |-> "absent"]

ToResponse(instance, env) ==
    [name |-> instance.name,
     message |-> instance.message,
     category |-> instance.category,
     code |-> instance.code,
     context |-> IF env = "development" \/ instance.category = "VALIDATION"
                 THEN instance.context ELSE "absent",
     requestId |-> "absent"]

\* sendErrorResponse(error, req, res): the log channels written to, the
\* status and the body passed to res.status(..).json(..).
NoSent ==
    [called |-> FALSE, instance |-> 0, warn |-> FALSE, error |-> FALSE,
     status |-> 0,
     body |-> [name |-> "absent", message |-> <<>>, category |-> "absent",
               code |-> "absent", context |-> "absent",
               requestId |-> "absent"]]

SendErrorResponseLogsBoth(h, i, reqId, env) ==
    [called |-> TRUE,
     instance |-> i,
     warn |-> TRUE,
     error |-> TRUE,
     status |-> h[i].statusCode,
     body |-> IF reqId # "undefined"
              THEN [ToResponse(h[i], env) EXCEPT !.requestId = reqId]
              ELSE ToResponse(h[i], env)]
SendErrorResponse(h, i, reqId, env) ==
    [called |-> TRUE,
     instance |-> i,
     warn |-> h[i].isOperational,
     error |-> ~h[i].isOperational,
     status |-> h[i].statusCode,
     body |-> IF reqId # "undefined"
              THEN [ToResponse(h[i], env) EXCEPT !.requestId = reqId]
              ELSE ToResponse(h[i], env)]

\* req.id of the requests: no middleware of the repository sets it.
RequestIds == {"undefined"}

\* origin of the instances after a call that leaves heap as h2.
OriginAfter(h2, by) ==
    IF Len(h2) > Len(origin) THEN Append(origin, by) ELSE origin

\* The values a caller can hand over: raw values and the instances built.
Values(h) == RawValues \cup {InstanceValue(h, i) : i \in 1..Len(h)}

NoCall == [fn |-> "none", arg |-> Undefined, result |-> 0]

\* Arguments of the factory calls: everything left out, or a message and
\* a context given.
FactoryArguments ==
    {[message |-> <<"undefined">>, context |-> "undefined"],
     [message |-> <<"User">>, context |-> "callerContext"]}

\* Application code builds an error with a factory.
CallFactory ==
    /\ Len(heap) < MaxInstances
    /\ \E f \in Factories, args \in FactoryArguments :
         /\ heap' = Append(heap, Factory(f, args.message, args.context,
                                         Undefined))
         /\ origin' = Append(origin, f)
    /\ UNCHANGED <<lastCall, sent, nodeEnv, success>>
    /\ UNCHANGED lifecycleVars

\* Parameter objects of direct constructor calls: the optional fields
\* left out, and two with isOperational false.
ConstructorParams ==
    <<[message |-> <<"upstream">>, category |-> "EXTERNAL_SERVICE",
       context |-> "undefined", originalError |-> Undefined,
       code |-> "undefined"],
      [message |-> <<"upstream">>, category |-> "EXTERNAL_SERVICE",
       severity |-> "LOW", statusCode |-> 503, context |-> "callerContext",
       originalError |-> Undefined, isOperational |-> FALSE,
       code |-> "UPSTREAM_DOWN"],
      [message |-> <<"upstream">>, category |-> "NETWORK",
       severity |-> "CRITICAL", statusCode |-> 502, context |-> "undefined",
       originalError |-> Undefined, isOperational |-> FALSE,
       code |-> "undefined"]>>

\* Application code builds an error with new appError(params).
CallConstructor ==
    /\ Len(heap) < MaxInstances
    /\ \E k \in 1..Len(ConstructorParams) :
         heap' = Append(heap, NewAppError(ConstructorParams[k]))
    /\ origin' = Append(origin, "constructor")
    /\ UNCHANGED <<lastCall, sent, nodeEnv, success>>
    /\ UNCHANGED lifecycleVars

\* What application code hands to appError.fromUnknown in a catch clause:
\* an instance, an Error, or a value that is not an Error.
FromUnknownArguments(h) ==
    {InstanceValue(h, i) : i \in 1..Len(h)}
      \cup {ErrorObject("Error", <<"boom">>), Undefined}

\* Application code calls appError.fromUnknown.
CallFromUnknown ==
    /\ \E error \in FromUnknownArguments(heap) :
         LET r == FromUnknown(heap, error, "undefined")
         IN /\ Len(r.heap) <= MaxInstances
            /\ heap' = r.heap
            /\ origin' = OriginAfter(r.heap, "fromUnknown")
            /\ lastCall' = [fn |-> "fromUnknown", arg |-> error,
                            result |-> r.result]
    /\ sent' = NoSent
    /\ UNCHANGED <<nodeEnv, success>>
    /\ UNCHANGED lifecycleVars

\* The error middleware as it would be if an error that is not operational
\* started the shutdown.
CallGlobalErrorHandlerShutsDown ==
    /\ \E error \in Values(heap), reqId \in RequestIds :
         LET r == GlobalErrorHandler(heap, error)
         IN /\ Len(r.heap) <= MaxInstances
            /\ heap' = r.heap
            /\ origin' = OriginAfter(r.heap, "globalErrorHandler")
            /\ lastCall' = [fn |-> "globalErrorHandler", arg |-> error,
                            result |-> r.result]
            /\ sent' = IF r.result = 0 THEN NoSent
                       ELSE SendErrorResponse(r.heap, r.result, reqId, nodeEnv)
            /\ IF r.result > 0 /\ ~r.heap[r.result].isOperational
               THEN GracefulShutdown("UNCAUGHT_EXCEPTION", serverState,
                                     readyState, timer)
               ELSE UNCHANGED <<isShuttingDown, shutdownTimeout, timer,
                                signal, shutdownPc, endedAt, caught,
                                shutdownPromises, closeCalls, exitCalls,
                                immediates, ignored, serverState, readyState>>
    /\ UNCHANGED <<nodeEnv, success>>
    /\ UNCHANGED <<exitLog, triggers>>
    /\ UNCHANGED <<mainPc, retries, dbListeners, serverErrListener,
                   startTimer, attempts, inFlight, delays, lastError,
                   thrown, failureShape>>
\* express calls the error middleware with what a handler passed to next,
\* or with the rejection that the catch(next) of catchAsync hands over.
CallGlobalErrorHandler ==
    /\ \E error \in Values(heap), reqId \in RequestIds :
         LET r == GlobalErrorHandler(heap, error)
         IN /\ Len(r.heap) <= MaxInstances
            /\ heap' = r.heap
            /\ origin' = OriginAfter(r.heap, "globalErrorHandler")
            /\ lastCall' = [fn |-> "globalErrorHandler", arg |-> error,
                            result |-> r.result]
            /\ sent' = IF r.result = 0 THEN NoSent
                       ELSE SendErrorResponse(r.heap, r.result, reqId, nodeEnv)
    /\ UNCHANGED <<nodeEnv, success>>
    /\ UNCHANGED lifecycleVars

\* The notFound middleware: builds the error with the factory and hands
\* it to next, which runs the error middleware.
NotFound ==
    /\ Len(heap) < MaxInstances
    /\ \E reqId \in RequestIds :
         LET h1 == Append(heap, Factory("notFound", <<"API endpoint">>,
                                        "notFoundMeta", Undefined))
             error == InstanceValue(h1, Len(h1))
             r == GlobalErrorHandler(h1, error)
         IN /\ heap' = r.heap
            /\ origin' = Append(origin, "notFound")
            /\ lastCall' = [fn |-> "notFound", arg |-> Undefined,
                            result |-> r.result]
            /\ sent' = SendErrorResponse(r.heap, r.result, reqId, nodeEnv)
    /\ UNCHANGED <<nodeEnv, success>>
    /\ UNCHANGED lifecycleVars

----------------------------------------------------------------------------
(* sendSuccessResponse *)

\* A string is the sequence of its pieces; " " is a piece of white space.
RECURSIVE TrimStart(_)
TrimStart(s) ==
    IF s # <<>> /\ Head(s) = " " THEN TrimStart(Tail(s)) ELSE s

RECURSIVE TrimEnd(_)
TrimEnd(s) ==
    IF s # <<>> /\ s[Len(s)] = " "
    THEN TrimEnd(SubSeq(s, 1, Len(s) - 1)) ELSE s

\* String.prototype.trim
Trim(s) == TrimEnd(TrimStart(s))

\* The message parameter: its typeof and, for a string, its pieces.
Text(s) == [type |-> "string", chars |-> s]

Messages ==
    {[type |-> "undefined", chars |-> <<>>],
     [type |-> "number", chars |-> <<>>],
     Text(<<>>),
     Text(<<" ">>),
     Text(<<"Created">>),
     Text(<<" ", "Created", " ">>)}

\* The statusCode parameter: left out, or a number.
NoStatus == [given |-> FALSE, value |-> 0]

Status(n) == [given |-> TRUE, value |-> n]

StatusCodes ==
    {NoStatus} \cup {Status(n) : n \in {-1, 0, 100, 199, 200, 201, 299,
                                         300, 404, 500}}

\* data and meta: both left out, a payload with an empty meta, a payload
\* with pagination.
Payloads ==
    {[data |-> "undefined", meta |-> "undefined"],
     [data |-> "payload", meta |-> "{}"],
     [data |-> "payload", meta |-> "pagination"]}

SuccessParams ==
    {[res |-> res, statusCode |-> statusCode, message |-> message,
      data |-> p.data, meta |-> p.meta] :
        res \in {"null", "undefined", "response"},
        statusCode \in StatusCodes, message \in Messages, p \in Payloads}

\* !message: undefined and the empty string are falsy; the number handed
\* over here is not zero.
Falsy(message) ==
    \/ message.type = "undefined"
    \/ message.type = "string" /\ message.chars = <<>>

\* statusCode && (statusCode < 200 || statusCode >= 300)
StatusRejected(statusCode) ==
    statusCode # 0 /\ (statusCode < 200 \/ statusCode >= 300)

NoBody ==
    [success |-> FALSE, statusCode |-> 0, message |-> <<>>,
     data |-> "absent", meta |-> "absent"]

NoSuccess ==
    [called |-> FALSE,
     params |-> [res |-> "undefined", statusCode |-> NoStatus,
                 message |-> Text(<<>>), data |-> "undefined",
                 meta |-> "undefined"],
     threw |-> <<>>, written |-> FALSE, status |-> 0, body |-> NoBody]

\* sendSuccessResponse(params): what it throws, or the status and body it
\* passes to res.status(..).json(..).
SendSuccessResponse(params) ==
    LET statusCode == IF params.statusCode.given
                      THEN params.statusCode.value ELSE 200
        Throws(message) ==
            [called |-> TRUE, params |-> params, threw |-> message,
             written |-> FALSE, status |-> 0, body |-> NoBody]
    IN IF params.res \in {"null", "undefined"}
       THEN Throws(<<"Response object (res) is required">>)
       ELSE IF Falsy(params.message) \/ params.message.type # "string"
       THEN Throws(<<"Valid message string is required">>)
       ELSE IF StatusRejected(statusCode)
       THEN Throws(<<"Status code must be in the 2xx range for success responses">>)
       ELSE [called |-> TRUE, params |-> params, threw |-> <<>>,
             written |-> TRUE, status |-> statusCode,
             body |-> [success |-> TRUE,
                       statusCode |-> statusCode,
                       message |-> Trim(params.message.chars),
                       data |-> IF params.data # "undefined"
                                THEN params.data ELSE "absent",
                       meta |-> IF params.meta \notin {"undefined", "{}"}
                                THEN params.meta ELSE "absent"]]

\* A route handler calls sendSuccessResponse; what it throws is an error
\* built by appError.internal.
CallSendSuccessResponse ==
    /\ \E params \in SuccessParams :
         LET r == SendSuccessResponse(params)
         IN /\ success' = r
            /\ IF r.threw # <<>>
               THEN /\ Len(heap) < MaxInstances
                    /\ heap' = Append(heap, Factory("internal", r.threw,
                                                    "undefined", Undefined))
                    /\ origin' = Append(origin, "internal")
               ELSE UNCHANGED <<heap, origin>>
    /\ UNCHANGED <<lastCall, sent, nodeEnv>>
    /\ UNCHANGED lifecycleVars

SuccessNext == CallSendSuccessResponse

ClassifyNext ==
    \/ CallFactory
    \/ CallConstructor
    \/ CallFromUnknown
    \/ CallGlobalErrorHandler
    \/ NotFound

----------------------------------------------------------------------------

\* State once the module has been loaded: the process handlers are
\* registered and main has issued the first mongoose.connect.
ModuleLoaded ==
    /\ isShuttingDown = FALSE
    /\ shutdownTimeout = "undefined"
    /\ timer = "unset"
    /\ signal = "none"
    /\ shutdownPc = "idle"
    /\ endedAt = "none"
    /\ caught = NoError
    /\ shutdownPromises = <<>>
    /\ closeCalls = [server |-> 0, db |-> 0]
    /\ exitCalls = <<>>
    /\ immediates = <<>>
    /\ exitLog = <<>>
    /\ ignored = 0
    /\ serverState = "undefined"
    /\ readyState = "connecting"
    /\ mainPc = "connecting"
    /\ retries = 0
    /\ dbListeners = FALSE
    /\ serverErrListener = FALSE
    /\ startTimer = "unset"
    /\ triggers = 0
    /\ attempts = 1
    /\ inFlight = 1
    /\ delays = <<>>
    /\ lastError = NoError
    /\ thrown = NoError
    /\ failureShape = "none"
    /\ heap = <<>>
    /\ lastCall = NoCall
    /\ origin = <<>>
    /\ sent = NoSent
    /\ success = NoSuccess

\* The lifecycle does not read NODE_ENV beyond a log line.
Init == ModuleLoaded /\ nodeEnv = "production"

\* State once main has finished: the dependency is connected at the first
\* attempt and the listener accepts requests.
Serving ==
    /\ isShuttingDown = FALSE
    /\ shutdownTimeout = "undefined"
    /\ timer = "unset"
    /\ signal = "none"
    /\ shutdownPc = "idle"
    /\ endedAt = "none"
    /\ caught = NoError
    /\ shutdownPromises = <<>>
    /\ closeCalls = [server |-> 0, db |-> 0]
    /\ exitCalls = <<>>
    /\ immediates = <<>>
    /\ exitLog = <<>>
    /\ ignored = 0
    /\ serverState = "listening"
    /\ readyState = "connected"
    /\ mainPc = "ready"
    /\ retries = 0
    /\ dbListeners = TRUE
    /\ serverErrListener = TRUE
    /\ startTimer = "armed"
    /\ triggers = 0
    /\ attempts = 1
    /\ inFlight = 0
    /\ delays = <<>>
    /\ lastError = NoError
    /\ thrown = NoError
    /\ failureShape = "none"

\* Requests are handled while the listener accepts them, under either
\* environment.
ClassifyInit ==
    /\ Serving
    /\ heap = <<>>
    /\ lastCall = NoCall
    /\ origin = <<>>
    /\ sent = NoSent
    /\ success = NoSuccess
    /\ nodeEnv \in NodeEnvs

\* Route handlers answer requests while the listener accepts them.
SuccessInit ==
    /\ Serving
    /\ heap = <<>>
    /\ lastCall = NoCall
    /\ origin = <<>>
    /\ sent = NoSent
    /\ success = NoSuccess
    /\ nodeEnv = "production"

Next ==
    \/ Sigterm
    \/ Sigint
    \/ UnhandledRejection
    \/ UncaughtException
    \/ DbDisconnected
    \/ DbError
    \/ ServerError
    \/ ConnectOk
    \/ ConnectFailsRetry
    \/ BackoffElapsed
    \/ ConnectFailsFinal
    \/ ListenReady
    \/ ListenError
    \/ StartTimeoutFires
    \/ ServerCloseOk
    \/ ServerCloseFails
    \/ DbCloseOk
    \/ DbCloseFails
    \/ DeadlineFires
    \/ RunImmediate

Spec == Init /\ [][Next]_vars

\* The lifecycle with the timer phase of the event loop running: a timer
\* that stays armed fires.
LiveSpec == Spec /\ WF_vars(DeadlineFires)

\* The error-handling functions applied to bounded inputs.
ClassifySpec == ClassifyInit /\ [][ClassifyNext]_vars

\* sendSuccessResponse applied to bounded parameters.
SuccessSpec == SuccessInit /\ [][SuccessNext]_vars

TypeOK ==
    /\ isShuttingDown \in BOOLEAN
    /\ shutdownTimeout \in {"undefined", "handle"}
    /\ timer \in {"unset", "armed", "fired", "cleared"}
    /\ shutdownPc \in {"idle", "racing", "done"}
    /\ endedAt \in {"none", "noClosers", "try", "catch"}
    /\ readyState \in {"disconnected", "connected", "connecting", "disconnecting"}
    /\ retries \in 0..(maxRetries - 1)
    /\ triggers \in 0..MaxTriggers

----------------------------------------------------------------------------
(* Properties of the shutdown orchestrator *)

\* Terminal outcome of the shutdown, read off the place where
\* gracefulShutdown ended and the error it caught.
Outcome ==
    CASE endedAt = "none" -> "None"
      [] endedAt = "noClosers" -> "Completed"
      [] endedAt = "try" -> "Completed"
      [] endedAt = "catch" /\ caught.kind = "timeout" -> "TimedOut"
      [] endedAt = "catch" /\ caught.kind = "aggregate" -> "Failed"
      [] OTHER -> "Unknown"

PendingClosers(ps) == {i \in 1..Len(ps) : ps[i].status = "pending"}
FailedClosers(ps) == {i \in 1..Len(ps) : ps[i].status = "rejected"}
SucceededClosers(ps) == {i \in 1..Len(ps) : ps[i].status = "fulfilled"}

FaultReasons ==
    {"STARTUP_FAILURE", "SERVER_ERROR", "DATABASE_ERROR",
     "UNEXPECTED_DISCONNECTION", "UNHANDLED_REJECTION", "UNCAUGHT_EXCEPTION"}

\* C1: whatever the interleaving of triggers, close is called at most once
\* on the listener and at most once on the dependency connection, and a
\* shutdown sequence that has ended has invoked initiateShutdown exactly
\* once (never twice, never zero times).
C1_OneSequenceOneExit ==
    /\ closeCalls.server <= 1
    /\ closeCalls.db <= 1
    /\ Len(exitCalls) <= 1
    /\ (shutdownPc = "done" => Len(exitCalls) = 1)

\* The part of C1 that does not depend on the exit step being reached.
AtMostOnce ==
    /\ closeCalls.server <= 1
    /\ closeCalls.db <= 1
    /\ Len(exitCalls) <= 1

\* C2: a step in which the deadline fires while a registered closer is
\* still pending ends the shutdown as TimedOut and invokes the exit step
\* with status 1, whatever the state of the other closers.
C2_DeadlineForcesTimedOut ==
    [][(/\ timer = "armed"
        /\ timer' = "fired"
        /\ PendingClosers(shutdownPromises) # {})
       => (/\ Outcome' = "TimedOut"
           /\ exitCalls' = <<1>>)]_vars

C2_Witness ==
    /\ Outcome = "TimedOut"
    /\ exitCalls = <<1>>
    /\ Len(shutdownPromises) = 2
    /\ PendingClosers(shutdownPromises) # {}
    /\ SucceededClosers(shutdownPromises) # {}

\* C3: a step in which the last pending closer settles before the deadline,
\* with at least one closer failed, ends the shutdown as Failed, invokes
\* the exit step with status 1, and the aggregated error carries the
\* message of every failed closer and of no other closer.
C3_FailedListsEveryFailure ==
    [][(/\ shutdownPc = "racing"
        /\ timer = "armed"
        /\ timer' # "fired"
        /\ PendingClosers(shutdownPromises') = {}
        /\ FailedClosers(shutdownPromises') # {})
       => (/\ Outcome' = "Failed"
           /\ exitCalls' = <<1>>
           /\ caught'.count = Cardinality(FailedClosers(shutdownPromises'))
           /\ Len(caught'.messages) = caught'.count
           /\ \A i \in FailedClosers(shutdownPromises') :
                \E k \in 1..Len(caught'.messages) :
                   caught'.messages[k] = shutdownPromises'[i].reason
           /\ \A k \in 1..Len(caught'.messages) :
                \E i \in FailedClosers(shutdownPromises') :
                   caught'.messages[k] = shutdownPromises'[i].reason)]_vars

C3_Witness ==
    /\ Outcome = "Failed"
    /\ exitCalls = <<1>>
    /\ FailedClosers(shutdownPromises) # {}
    /\ SucceededClosers(shutdownPromises) # {}
    /\ Len(caught.messages) = 1

\* C4: a step in which the last pending closer settles before the deadline
\* and every registered closer has succeeded ends the shutdown as Completed
\* and invokes the exit step with status 0.
C4_AllSucceedCompletes ==
    [][(/\ shutdownPc = "racing"
        /\ timer = "armed"
        /\ timer' # "fired"
        /\ Len(shutdownPromises') > 0
        /\ SucceededClosers(shutdownPromises') = 1..Len(shutdownPromises'))
       => (/\ Outcome' = "Completed"
           /\ exitCalls' = <<0>>)]_vars

C4_Witness ==
    /\ Outcome = "Completed"
    /\ endedAt = "try"
    /\ exitCalls = <<0>>
    /\ Len(shutdownPromises) = 2
    /\ SucceededClosers(shutdownPromises) = {1, 2}

\* C5: a shutdown that found nothing to close has exited with status 0 and
\* has not armed the deadline timer.
C5_NoClosersExitsWithoutTimer ==
    endedAt = "noClosers" => (exitCalls = <<0>> /\ timer = "unset")

\* C6: no state has the shutdown sequence finished with the deadline timer
\* still armed.
C6_TimerClearedWhenEnded ==
    shutdownPc = "done" => (timer # "armed" /\ shutdownTimeout = "undefined")

\* C7: every shutdown that has reached a terminal outcome has issued one
\* deferred exit call carrying the status 0 or 1: it is either still queued
\* for the next tick or has run.
C7_DeferredExitIssued ==
    Outcome # "None" => (exitLog \o immediates) \in {<<0>>, <<1>>}

\* C8: a shutdown triggered by a bootstrap failure or runtime fault never
\* invokes the exit step with status 0.
C8_FaultExitsWithOne ==
    signal \in FaultReasons =>
        \A k \in 1..Len(exitCalls) : exitCalls[k] = 1

\* C9: while a started closer is still pending the race is decided by the
\* deadline only: a closer failing does not end the wait, and a Failed
\* outcome is only reached with every closer settled.
C9_WaitForAllThenInspect ==
    [][/\ (/\ shutdownPc = "racing"
           /\ PendingClosers(shutdownPromises') # {})
          => (shutdownPc' = "racing" \/ timer' = "fired")
       /\ Outcome' = "Failed" => PendingClosers(shutdownPromises') = {}]_vars

C9_Witness ==
    /\ shutdownPc = "racing"
    /\ FailedClosers(shutdownPromises) # {}
    /\ PendingClosers(shutdownPromises) # {}
    /\ exitCalls = <<>>

\* C10: once a terminal outcome is reached no step changes it, changes the
\* caught error or invokes the exit step again; the exit step is invoked at
\* most once; and isShuttingDown is never reset.
C10_OutcomeIsFinal ==
    [][/\ (isShuttingDown => isShuttingDown')
       /\ (Outcome # "None" =>
             /\ Outcome' = Outcome
             /\ caught' = caught
             /\ exitCalls' = exitCalls)
       /\ Len(exitCalls') <= 1]_vars

C10_Witness ==
    /\ Outcome = "TimedOut"
    /\ PendingClosers(shutdownPromises) = {}
    /\ FailedClosers(shutdownPromises) # {}
    /\ ignored > 0
    /\ timer = "fired"

----------------------------------------------------------------------------
(* Properties of connectDatabase *)

\* The delays between successive attempts, in milliseconds.
Schedule == <<2000, 4000, 8000, 10000>>

ClassifiedErrors ==
    {"DatabaseTimeoutError", "DatabaseConnectionError", "DatabaseAuthError"}

C11_ShapeReached(shape) ==
    thrown # NoError /\ failureShape = shape /\ attempts = 5

\* The 1-based attempt number an error carries, given the 0-based loop
\* index handed to its constructor; 0 when no index was handed over.
CarriedAttempt(e) ==
    IF e.retries = -1 THEN 0 ELSE e.retries + 1

\* C12: the error raised by connectDatabase after five failed attempts
\* carries attempt count 5, for every failure shape.
C12_RaisedErrorCarriesFive ==
    thrown # NoError => CarriedAttempt(thrown) = 5

\* C13: no two attempts are in flight together; a new attempt starts only
\* from the elapsed backoff of a failed one; and once an attempt has
\* succeeded there is no further attempt and no further delay.
C13_SequentialAttempts ==
    [][/\ inFlight' <= 1
       /\ attempts' # attempts =>
            /\ attempts' = attempts + 1
            /\ mainPc = "backoff"
            /\ inFlight = 0
            /\ Len(delays) = attempts
            /\ thrown = NoError
       /\ (dbListeners \/ dbListeners') =>
            /\ attempts' = attempts
            /\ delays' = delays
            /\ inFlight' = 0]_vars

C13_Witness ==
    /\ mainPc = "ready"
    /\ dbListeners
    /\ attempts = 3
    /\ delays = <<2000, 4000>>
    /\ inFlight = 0

\* C14: as long as every failure has been an authentication failure,
\* connectDatabase raises only after 5 attempts and the full backoff
\* schedule, and what it raises is the authentication error.
C14_AuthFailureIsRetried ==
    failureShape = "auth" =>
        \/ thrown = NoError
        \/ /\ attempts = 5
           /\ delays = Schedule
           /\ thrown.class = "DatabaseAuthError"

C14_Witness ==
    /\ failureShape = "auth"
    /\ thrown # NoError
    /\ thrown.class = "DatabaseAuthError"
    /\ attempts = 5

----------------------------------------------------------------------------
(* Properties of the triggers and of main *)

\* A shutdown sequence starts in this step with reason tag.
Started(tag) ==
    /\ ~isShuttingDown
    /\ isShuttingDown'
    /\ signal' = tag
    /\ shutdownPc = "idle"
    /\ shutdownPc' = IF Len(shutdownPromises') = 0 THEN "done" ELSE "racing"
    /\ timer' = "armed"

\* A step in which a bootstrap stage fails: the connection attempts are
\* exhausted, the listener reports an error before it is ready, or the
\* startup deadline fires before the listener is ready.
BootstrapStageFails ==
    \/ mainPc \in {"connecting", "backoff"} /\ thrown = NoError /\ thrown' # NoError
    \/ mainPc = "starting" /\ serverState = "starting" /\ serverState' = "errored"
    \/ mainPc = "starting" /\ startTimer = "armed" /\ startTimer' = "fired"

\* C16: each trigger that occurs while no shutdown is in progress starts
\* the shutdown sequence with its own reason tag.
C16_TriggerStartsShutdown ==
    [][/\ (Sigterm /\ ~isShuttingDown) => Started("SIGTERM")
       /\ (Sigint /\ ~isShuttingDown) => Started("SIGINT")
       /\ (UnhandledRejection /\ ~isShuttingDown) => Started("UNHANDLED_REJECTION")
       /\ (UncaughtException /\ ~isShuttingDown) => Started("UNCAUGHT_EXCEPTION")
       /\ (DbDisconnected /\ ~isShuttingDown) => Started("UNEXPECTED_DISCONNECTION")
       /\ (DbError /\ ~isShuttingDown) => Started("DATABASE_ERROR")
       /\ (ServerError /\ ~isShuttingDown) => Started("SERVER_ERROR")
       /\ (BootstrapStageFails /\ ~isShuttingDown) => Started("STARTUP_FAILURE")]_vars

C16_Witness ==
    /\ signal = "UNEXPECTED_DISCONNECTION"
    /\ shutdownPc = "racing"
    /\ readyState = "disconnected"
    /\ closeCalls = [server |-> 1, db |-> 0]

\* C17: every step in which a bootstrap stage fails ends main in its catch
\* clause with gracefulShutdown('STARTUP_FAILURE') called (which starts the
\* sequence, or only logs when one is in progress); main never rejects.
C17_BootstrapFailureIsRouted ==
    [][/\ mainPc' # "rejected"
       /\ BootstrapStageFails =>
            /\ mainPc' = "failed"
            /\ IF isShuttingDown
               THEN ignored' = ignored + 1 /\ signal' = signal
               ELSE isShuttingDown' /\ signal' = "STARTUP_FAILURE"]_vars

C17_Witness ==
    /\ mainPc = "failed"
    /\ signal = "STARTUP_FAILURE"
    /\ serverState = "errored"
    /\ thrown = NoError

\* C18: the listener exists only once connectDatabase has returned without
\* raising and the dependency health listeners are registered; when
\* connectDatabase has raised, the listener is never started.
C18_BootstrapOrder ==
    /\ serverState # "undefined" =>
         /\ dbListeners
         /\ thrown = NoError
         /\ mainPc \notin {"connecting", "backoff"}
         /\ inFlight = 0
    /\ thrown # NoError => (serverState = "undefined" /\ ~dbListeners)

C18_Witness ==
    /\ serverState = "listening"
    /\ dbListeners
    /\ attempts = 2
    /\ thrown = NoError

\* C19: the startup deadline firing while main still waits for the ready
\* signal fails the bootstrap and calls gracefulShutdown('STARTUP_FAILURE');
\* the ready signal arriving first completes the bootstrap without touching
\* the shutdown state, and the deadline firing after that changes nothing.
C19_StartupRace ==
    [][/\ (startTimer = "armed" /\ startTimer' = "fired" /\ mainPc = "starting") =>
            /\ mainPc' = "failed"
            /\ IF isShuttingDown
               THEN ignored' = ignored + 1 /\ signal' = signal
               ELSE isShuttingDown' /\ signal' = "STARTUP_FAILURE"
       /\ (mainPc = "starting" /\ serverState = "starting"
             /\ serverState' = "listening") =>
            /\ mainPc' = "ready"
            /\ serverErrListener'
            /\ UNCHANGED <<isShuttingDown, signal, ignored, shutdownPc, timer>>
       /\ (startTimer = "armed" /\ startTimer' = "fired" /\ mainPc = "ready") =>
            UNCHANGED <<mainPc, isShuttingDown, signal, ignored, shutdownPc,
                        timer, exitCalls>>]_vars

C19_Witness ==
    /\ mainPc = "failed"
    /\ startTimer = "fired"
    /\ signal = "STARTUP_FAILURE"
    /\ serverState = "starting"
    /\ dbListeners

----------------------------------------------------------------------------
(* Properties of the error classifier *)

\* C20: fromUnknown and globalErrorHandler applied to an appError instance
\* use that very instance and construct nothing, no instance is ever
\* changed, and applying either of them to the result of a previous call
\* gives that same result again.
C20_ClassifyPassThrough ==
    [][/\ \A i \in 1..Len(heap) : Len(heap') >= i /\ heap'[i] = heap[i]
       /\ (lastCall' # lastCall /\ IsAppError(lastCall'.arg)) =>
            (lastCall'.result = lastCall'.arg.id /\ heap' = heap)
       /\ (lastCall' # lastCall /\ lastCall.result > 0
             /\ lastCall'.arg = InstanceValue(heap, lastCall.result)) =>
            (lastCall'.result = lastCall.result /\ heap' = heap)]_vars

C20_Witness ==
    /\ lastCall.fn = "globalErrorHandler"
    /\ IsAppError(lastCall.arg)
    /\ lastCall.result = lastCall.arg.id
    /\ heap[lastCall.result].category = "NOT_FOUND"
    /\ Len(heap) = MaxInstances

C20_WitnessTwice ==
    /\ lastCall.fn = "fromUnknown"
    /\ IsAppError(lastCall.arg)
    /\ lastCall.result = lastCall.arg.id
    /\ heap[lastCall.result].code = "UNKNOWN_ERROR"

\* The last call was globalErrorHandler on a raw value (not an appError)
\* and it produced an instance.
HandledRaw ==
    /\ lastCall.fn = "globalErrorHandler"
    /\ ~IsAppError(lastCall.arg)

Classified == heap[lastCall.result]

\* part is one of the pieces the message is put together from.
Names(message, part) == \E i \in 1..Len(message) : message[i] = part

\* C21: a raw failure with code 11000 is classified to an error with
\* status 409 whose message names the first field of keyValue.
C21_DuplicateKeyIs409 ==
    (HandledRaw /\ CodeIs11000(lastCall.arg)) =>
        /\ lastCall.result > 0
        /\ Classified.statusCode = 409
        /\ Len(lastCall.arg.keyValue) > 0 =>
             Names(Classified.message, lastCall.arg.keyValue[1].field)

\* C22: a raw failure named CastError is classified to a VALIDATION error
\* with status 400 whose message names the path and the value.
C22_CastErrorIsValidation400 ==
    (HandledRaw /\ ~CodeIs11000(lastCall.arg)
       /\ lastCall.arg.name = "CastError") =>
        /\ lastCall.result > 0
        /\ Classified.category = "VALIDATION"
        /\ Classified.statusCode = 400
        /\ Names(Classified.message, lastCall.arg.path)
        /\ Names(Classified.message, lastCall.arg.value)

\* C23: a raw failure named ValidationError with sub-errors is classified
\* to a VALIDATION error with status 400 whose context holds the list of
\* {field, message, value} entries, one per sub-error.
C23_ValidationErrorDetailsInContext ==
    (HandledRaw /\ ~CodeIs11000(lastCall.arg)
       /\ lastCall.arg.name = "ValidationError"
       /\ Len(lastCall.arg.errors) > 0
       /\ \A i \in 1..Len(lastCall.arg.errors) : ~lastCall.arg.errors[i].isNull) =>
        /\ lastCall.result > 0
        /\ Classified.category = "VALIDATION"
        /\ Classified.statusCode = 400
        /\ "details" \in ContextKeys(Classified.context)

TokenErrorNames == {"JsonWebTokenError", "TokenExpiredError"}

\* C24: a failure named JsonWebTokenError or TokenExpiredError is
\* classified to AUTHENTICATION/401 and a SyntaxError carrying a body
\* property to VALIDATION/400; both results are operational and have the
\* raw failure as originalError.
C24_TokenAndBodyParseFailures ==
    /\ (HandledRaw /\ lastCall.arg.type = "object"
          /\ lastCall.arg.name \in TokenErrorNames) =>
           /\ lastCall.result > 0
           /\ Classified.category = "AUTHENTICATION"
           /\ Classified.statusCode = 401
           /\ Classified.isOperational
           /\ Classified.originalError = lastCall.arg
           /\ sent.status = 401
    /\ (HandledRaw /\ lastCall.arg.isSyntaxError /\ lastCall.arg.hasBody) =>
           /\ lastCall.result > 0
           /\ Classified.category = "VALIDATION"
           /\ Classified.statusCode = 400
           /\ Classified.isOperational
           /\ Classified.originalError = lastCall.arg
           /\ sent.status = 400

C24_Witness ==
    /\ HandledRaw
    /\ lastCall.arg.name = "TokenExpiredError"
    /\ lastCall.result = 2
    /\ Classified.statusCode = 401
    /\ Classified.message = <<"Token expired">>

C24_WitnessBody ==
    /\ HandledRaw
    /\ lastCall.arg.isSyntaxError
    /\ lastCall.arg.hasBody
    /\ Classified.code = "VALIDATION_ERROR"

\* The shapes globalErrorHandler has a branch for.
Recognised(error) ==
    \/ IsAppError(error)
    \/ CodeIs11000(error)
    \/ error.type = "object" /\ error.name \in {"CastError", "ValidationError"}
    \/ error.type = "object" /\ error.name \in TokenErrorNames
    \/ error.isSyntaxError /\ error.hasBody

\* C25: a raw value of no recognised shape is classified to UNKNOWN/500,
\* not operational; an Error keeps its message and becomes originalError,
\* any other value gets the fixed message and no originalError.
C25_UnknownFallback ==
    ((lastCall.fn = "globalErrorHandler" /\ ~Recognised(lastCall.arg))
       \/ (lastCall.fn = "fromUnknown" /\ ~IsAppError(lastCall.arg))) =>
        /\ lastCall.result > 0
        /\ Classified.category = "UNKNOWN"
        /\ Classified.statusCode = 500
        /\ ~Classified.isOperational
        /\ IF lastCall.arg.isError
           THEN /\ Classified.message = lastCall.arg.message
                /\ Classified.originalError = lastCall.arg
           ELSE /\ Classified.message = <<"An unknown error occurred">>
                /\ Classified.originalError = Undefined

C25_Witness ==
    /\ lastCall.fn = "globalErrorHandler"
    /\ ~Recognised(lastCall.arg)
    /\ lastCall.arg.isSyntaxError
    /\ Classified.message = <<"Unexpected token">>
    /\ sent.status = 500

C25_WitnessNotAnError ==
    /\ lastCall.fn = "globalErrorHandler"
    /\ lastCall.arg.type = "string"
    /\ Classified.message = <<"An unknown error occurred">>

\* C26: globalErrorHandler never throws: whatever the raw value, it
\* produces an instance and sends a response.
C26_HandlerNeverThrows ==
    lastCall.fn = "globalErrorHandler" =>
        /\ lastCall.result > 0
        /\ sent.called
        /\ sent.instance = lastCall.result

----------------------------------------------------------------------------
(* Properties of the responder and of the taxonomy *)

\* C27: sendErrorResponse writes to the error channel exactly when the
\* error is not operational, and to the warning channel only when it is.
C27_ErrorChannelIffNotOperational ==
    sent.called =>
        /\ sent.error <=> ~heap[sent.instance].isOperational
        /\ heap[sent.instance].isOperational => (sent.warn /\ ~sent.error)
        /\ ~heap[sent.instance].isOperational => ~sent.warn

C27_Witness ==
    /\ sent.called
    /\ sent.error
    /\ ~sent.warn
    /\ heap[sent.instance].code = "UNKNOWN_ERROR"
    /\ Len(heap) = 2
    /\ heap[1].isOperational

C27_WitnessOperational ==
    /\ sent.called
    /\ sent.warn
    /\ origin[sent.instance] = "notFound"

OperationalFactories ==
    {"validation", "authentication", "authorization", "notFound", "conflict",
     "rateLimit"}

\* The instance is the unknown fallback of fromUnknown.
IsUnknownFallback(i) ==
    origin[i] \in {"fromUnknown", "globalErrorHandler"}
      /\ heap[i].category = "UNKNOWN"

\* C28: instances built by the six operational factories are operational;
\* instances built by the internal and database factories and by the
\* unknown fallback are not, and the responder logs those at error level.
C28_OperationalByFactory ==
    /\ \A i \in 1..Len(heap) :
         /\ origin[i] \in OperationalFactories => heap[i].isOperational
         /\ origin[i] \in {"internal", "database"} => ~heap[i].isOperational
         /\ IsUnknownFallback(i) => ~heap[i].isOperational
    /\ (sent.called
          /\ (origin[sent.instance] \in {"internal", "database"}
                \/ IsUnknownFallback(sent.instance))) => sent.error

\* C29: every instance with isOperational false has severity MEDIUM, HIGH
\* or CRITICAL.
C29_NotOperationalNeverLow ==
    \A i \in 1..Len(heap) :
        ~heap[i].isOperational => heap[i].severity \in {"MEDIUM", "HIGH", "CRITICAL"}

\* The combination the claim gives for each factory; "any" where it names
\* no machine code.
Combination(f) ==
    CASE f = "validation" ->
           [category |-> "VALIDATION", statusCode |-> 400,
            code |-> "VALIDATION_ERROR", severity |-> "MEDIUM"]
      [] f = "authentication" ->
           [category |-> "AUTHENTICATION", statusCode |-> 401,
            code |-> "any", severity |-> "MEDIUM"]
      [] f = "authorization" ->
           [category |-> "AUTHORIZATION", statusCode |-> 403,
            code |-> "any", severity |-> "MEDIUM"]
      [] f = "notFound" ->
           [category |-> "NOT_FOUND", statusCode |-> 404,
            code |-> "any", severity |-> "MEDIUM"]
      [] f = "conflict" ->
           [category |-> "BUSINESS_LOGIC", statusCode |-> 409,
            code |-> "CONFLICT_ERROR", severity |-> "MEDIUM"]
      [] f = "rateLimit" ->
           [category |-> "RATE_LIMITING", statusCode |-> 429,
            code |-> "any", severity |-> "MEDIUM"]
      [] f = "database" ->
           [category |-> "DATABASE", statusCode |-> 500,
            code |-> "any", severity |-> "HIGH"]
      [] f = "internal" ->
           [category |-> "INTERNAL_SERVER", statusCode |-> 500,
            code |-> "any", severity |-> "HIGH"]

\* C30: an instance built by a factory has that factory's category,
\* status, severity and machine code whatever the arguments, and
\* instances built by different factories have different machine codes.
C30_FactoriesFixCombination ==
    /\ \A i \in 1..Len(heap) :
         origin[i] \in Factories =>
           LET c == Combination(origin[i])
           IN /\ heap[i].category = c.category
              /\ heap[i].statusCode = c.statusCode
              /\ heap[i].severity = c.severity
              /\ c.code # "any" => heap[i].code = c.code
              /\ heap[i].code # "undefined"
    /\ \A i, j \in 1..Len(heap) :
         (origin[i] \in Factories /\ origin[j] \in Factories
            /\ origin[i] # origin[j]) => heap[i].code # heap[j].code

C30_Witness ==
    /\ Len(heap) = 2
    /\ origin[1] = "database"
    /\ origin[2] = "conflict"
    /\ heap[1].context = "{}"
    /\ heap[2].context = "callerContext"

\* The fields of an instance that toResponse copies into every body.
SameOutwardFields(a, b) ==
    /\ a.name = b.name
    /\ a.message = b.message
    /\ a.category = b.category
    /\ a.code = b.code

\* The body hides the context of this instance under environment env.
HidesContext(instance, env) ==
    env # "development" /\ instance.category # "VALIDATION"

\* C31: the body sent carries the context of the error exactly when
\* NODE_ENV is development or the category is VALIDATION, it has no field
\* for the cause or the stack, and two instances that differ only in their
\* cause, or in a context the body hides, have the same body.
C31_BodyHidesCauseAndContext ==
    /\ sent.called =>
         /\ sent.body.context =
              (IF nodeEnv = "development"
                    \/ heap[sent.instance].category = "VALIDATION"
               THEN heap[sent.instance].context ELSE "absent")
         /\ DOMAIN sent.body \cap {"originalError", "stack"} = {}
    /\ \A i, j \in 1..Len(heap) :
         (/\ SameOutwardFields(heap[i], heap[j])
          /\ \/ heap[i].context = heap[j].context
             \/ HidesContext(heap[i], nodeEnv)) =>
           ToResponse(heap[i], nodeEnv) = ToResponse(heap[j], nodeEnv)

\* Two instances with different causes, the second sent in production
\* with the body of the first.
C31_Witness ==
    /\ Len(heap) = 2
    /\ SameOutwardFields(heap[1], heap[2])
    /\ heap[1].originalError # heap[2].originalError
    /\ sent.called
    /\ sent.instance = 2
    /\ nodeEnv = "production"
    /\ sent.body.context = "absent"
    /\ sent.body = ToResponse(heap[1], nodeEnv)

\* Two instances with different contexts, the second sent in production
\* with the body of the first.
C31_WitnessContext ==
    /\ Len(heap) = 2
    /\ SameOutwardFields(heap[1], heap[2])
    /\ heap[1].context # heap[2].context
    /\ sent.called
    /\ sent.instance = 2
    /\ nodeEnv = "production"
    /\ sent.body = ToResponse(heap[1], nodeEnv)

\* A VALIDATION error sent in production with its context in the body.
C31_WitnessValidation ==
    /\ sent.called
    /\ nodeEnv = "production"
    /\ heap[sent.instance].category = "VALIDATION"
    /\ sent.body.context = heap[sent.instance].context
    /\ sent.body.context # "{}"

\* C32: handling the errors of requests (a rejection caught by catchAsync,
\* the notFound middleware, globalErrorHandler, sendErrorResponse) leaves
\* the shutdown state idle, invokes no closer and no exit step, and the
\* listener keeps accepting and the dependency stays connected.
C32_RequestErrorsNeverShutDown ==
    /\ ~isShuttingDown
    /\ shutdownPc = "idle"
    /\ signal = "none"
    /\ timer = "unset"
    /\ closeCalls = [server |-> 0, db |-> 0]
    /\ exitCalls = <<>>
    /\ serverState = "listening"
    /\ readyState = "connected"

\* Two requests have been answered, the last one with an error that is
\* not operational.
C32_Witness ==
    /\ Len(heap) = 2
    /\ lastCall.fn = "globalErrorHandler"
    /\ sent.called
    /\ sent.error
    /\ ~heap[sent.instance].isOperational

\* The notFound middleware has answered a request.
C32_WitnessNotFound ==
    /\ sent.called
    /\ origin[sent.instance] = "notFound"
    /\ heap[sent.instance].context = "notFoundMeta"
    /\ sent.status = 404

\* What the claim rejects: a status outside 200..299, and a message that
\* is not a string or is empty.
StatusOutside2xx(statusCode) ==
    statusCode.given /\ statusCode.value \notin 200..299

MessageUnusable(message) ==
    message.type # "string" \/ message.chars = <<>>

\* C33: sendSuccessResponse throws, before anything is written, when the
\* status is outside 200..299 (0 and negative values included) or the
\* message is not a string or is empty; every body it writes has a status
\* in 200..299 and a message that is not empty.
C33_SuccessResponseValidated ==
    success.called =>
      /\ (StatusOutside2xx(success.params.statusCode)
            \/ MessageUnusable(success.params.message)) =>
           (success.threw # <<>> /\ ~success.written)
      /\ success.written =>
           /\ success.body.statusCode \in 200..299
           /\ success.body.message # <<>>

\* statusCode 0 passes the check and is written.
C33_WitnessStatusZero ==
    /\ success.written
    /\ success.params.statusCode = Status(0)
    /\ success.status = 0
    /\ success.body.statusCode = 0

\* A message of white space passes the check and is written trimmed.
C33_WitnessBlankMessage ==
    /\ success.written
    /\ success.params.message = Text(<<" ">>)
    /\ success.body.message = <<>>
    /\ success.body.statusCode \in 200..299

\* A negative status is rejected with an internal error.
C33_WitnessRejected ==
    /\ success.called
    /\ success.params.statusCode = Status(-1)
    /\ success.threw # <<>>
    /\ Len(heap) = 1

\* C34: once a trigger has been accepted the bootstrap makes no further
\* progress: no further mongoose.connect is issued, app.listen is not
\* called and a pending listener does not start accepting.
C34_NoBootstrapAfterTrigger ==
    [][isShuttingDown =>
         /\ attempts' = attempts
         /\ serverState = "undefined" => serverState' = "undefined"
         /\ serverState' = "listening" => serverState = "listening"]_vars

\* The part of C34 about the retry loop alone.
C34_NoAttemptAfterTrigger ==
    [][isShuttingDown => attempts' = attempts]_vars

\* The part of C34 about the listener alone.
C34_NoListenAfterTrigger ==
    [][isShuttingDown =>
         /\ serverState = "undefined" => serverState' = "undefined"
         /\ serverState' = "listening" => serverState = "listening"]_vars

\* The shutdown has ended with the exit step invoked with status 0.
Completed == shutdownPc = "done" /\ exitCalls = <<0>>

\* C35: whenever the shutdown has ended as Completed the listener is not
\* accepting and the dependency connection is closed, also when the
\* trigger came before the listener was ready or the connection was up.
C35_CompletedMeansClosed ==
    Completed => (serverState # "listening" /\ readyState = "disconnected")

\* The part of C35 about the listener alone.
C35_CompletedListenerClosed ==
    Completed => serverState # "listening"

\* The part of C35 about the dependency alone.
C35_CompletedDbClosed ==
    Completed => readyState = "disconnected"

\* A shutdown triggered once main was ready ends with both closed.
C35_WitnessAfterReady ==
    /\ Completed
    /\ closeCalls = [server |-> 1, db |-> 1]
    /\ serverState = "closed"
    /\ readyState = "disconnected"

\* The trigger came after app.listen and before the listener was ready:
\* the shutdown has ended as Completed and the listener accepts.
C35_WitnessListenerLeftOpen ==
    /\ Completed
    /\ closeCalls = [server |-> 0, db |-> 1]
    /\ attempts = 1
    /\ serverState = "listening"
    /\ readyState = "disconnected"

\* A shutdown that started with at least one closer is under way.
Draining == shutdownPc = "racing"

\* C36: a shutdown that starts with at least one closer eventually invokes
\* the exit step, exactly once and no later than the step in which the
\* deadline fires, whatever the closers do and whatever further triggers
\* arrive.
C36_DrainingReachesExit ==
    /\ Draining ~> (shutdownPc = "done" /\ Len(exitCalls) = 1)
    /\ [](shutdownPromises # <<>> =>
            IF shutdownPc = "done" THEN Len(exitCalls) = 1
            ELSE exitCalls = <<>>)
    /\ [][(Draining /\ timer = "armed" /\ timer' # "armed") =>
            Len(exitCalls') = 1]_vars

\* The deadline has ended a shutdown whose closers never settled, after a
\* further trigger was ignored.
C36_Witness ==
    /\ shutdownPc = "done"
    /\ Len(shutdownPromises) = 2
    /\ \A i \in 1..2 : shutdownPromises[i].status = "pending"
    /\ ignored >= 1
    /\ caught = TimeoutError(signal)
    /\ exitCalls = <<1>>

\* The closers have settled before the deadline.
C36_WitnessSettled ==
    /\ shutdownPc = "done"
    /\ Len(shutdownPromises) = 2
    /\ timer = "cleared"
    /\ Len(exitCalls) = 1

\* The startup deadline timer fires after the ready signal has won the race.
LateStartDeadline ==
    startTimer = "armed" /\ startTimer' = "fired" /\ mainPc = "ready"

\* C37: the startup deadline timer is never cancelled (once armed it stays
\* armed until it fires, the ready signal does not clear it), and when it
\* fires after the ready signal it changes nothing else: no shutdown is
\* triggered, no rejection is left unhandled, the shutdown state, the
\* resources and the bootstrap stay as they were.
C37_LateStartDeadlineIsInert ==
    [][/\ startTimer = "armed" => startTimer' \in {"armed", "fired"}
       /\ (mainPc = "starting" /\ mainPc' = "ready") =>
            (startTimer = "armed" /\ startTimer' = "armed")
       /\ LateStartDeadline =>
            UNCHANGED <<isShuttingDown, shutdownTimeout, timer, signal,
                        shutdownPc, endedAt, caught, shutdownPromises,
                        closeCalls, exitCalls, immediates, exitLog, ignored,
                        serverState, readyState, mainPc, retries,
                        dbListeners, serverErrListener, triggers, attempts,
                        inFlight, delays, lastError, thrown,
                        failureShape>>]_vars

\* The timer has fired after the bootstrap completed and nothing has
\* started a shutdown.
C37_Witness ==
    /\ startTimer = "fired"
    /\ mainPc = "ready"
    /\ serverState = "listening"
    /\ ~isShuttingDown
    /\ signal = "none"
    /\ triggers = 0

\* The raw failure handled last has code 11000 and a keyValue with exactly
\* one field.
DuplicateOfOneField ==
    /\ HandledRaw
    /\ CodeIs11000(lastCall.arg)
    /\ Len(lastCall.arg.keyValue) = 1

\* C38: for a keyValue that maps exactly one field f to a value v, the
\* message of formatMongoDuplicateKeyError contains both f and v, whatever
\* the name of the field.
C38_DuplicateMessageNamesFieldAndValue ==
    DuplicateOfOneField =>
      LET message == FormatMongoDuplicateKeyError(lastCall.arg).message
          kv == lastCall.arg.keyValue[1]
      IN /\ Names(message, kv.field)
         /\ Names(message, kv.value)

\* The field is always named.
C38_MessageNamesField ==
    DuplicateOfOneField =>
      Names(FormatMongoDuplicateKeyError(lastCall.arg).message,
            lastCall.arg.keyValue[1].field)

\* keyValue { field: 'x' }: the message contains 'x'.
C38_WitnessFieldNamedField ==
    /\ DuplicateOfOneField
    /\ lastCall.arg.keyValue[1].field = "field"
    /\ Names(Classified.message, lastCall.arg.keyValue[1].value)

\* keyValue { email: 'a@b.c' }: the message says undefined for the value.
C38_WitnessOtherField ==
    /\ DuplicateOfOneField
    /\ lastCall.arg.keyValue[1].field = "email"
    /\ Names(Classified.message, "undefined")
    /\ ~Names(Classified.message, lastCall.arg.keyValue[1].value)

====
